---- MODULE Spec2Model ----
(***************************************************************************)
(* Model of the DCA scoring bot (lukyyy9/dedbot): the indicator pipeline   *)
(* and the ScoringEngine of core/scoring.py, and the ConfigManager of      *)
(* core/config.py.                                                         *)
(*                                                                         *)
(* Numbers.  Python floats are modelled in fixed point: a float x is the   *)
(* integer x * S with S = 10000 (four decimals).  Weights are kept with    *)
(* three decimals so that the weighted sum is exact.  np.nan is the        *)
(* sentinel NaN.  TLC integers are 32 bits wide, so multiplication and     *)
(* division are done in parts (FMul, FDiv).                                *)
(***************************************************************************)
EXTENDS Integers, Sequences, FiniteSets, TLC

(***************************************************************************)
(* Fixed-point arithmetic                                                  *)
(***************************************************************************)
\* the fixed-point unit: four decimals
S == 100 * 100

NaN == -2000000000

IsNaN(x) == x = NaN

Abs(x) == IF x < 0 THEN -x ELSE x

Sgn(x) == IF x < 0 THEN -1 ELSE 1

Min2(a, b) == IF a <= b THEN a ELSE b

Max2(a, b) == IF a >= b THEN a ELSE b

\* a * b for two non-negative fixed-point numbers, computed in parts
FMulPos(a, b) ==
    (a \div S) * b + (a % S) * (b \div S) + ((a % S) * (b % S)) \div S

FMul(a, b) == Sgn(a) * Sgn(b) * FMulPos(Abs(a), Abs(b))

\* a / b for a >= 0, b > 0, by long division, two decimals at a time
FDivPos(a, b) ==
    LET r1 == a % b
        q1 == (r1 * 100) \div b
        r2 == (r1 * 100) % b
        q2 == (r2 * 100) \div b
    IN  (a \div b) * S + q1 * 100 + q2

\* a / b, b # 0
FDiv(a, b) == Sgn(a) * Sgn(b) * FDivPos(Abs(a), Abs(b))

\* Python round(): the nearest multiple of unit, ties to even; the result is
\* in units (x = 12345, unit = 10 gives 1234)
RoundTo(x, unit) ==
    LET a == Abs(x)
        q == a \div unit
        r == a % unit
        n == IF 2 * r > unit \/ (2 * r = unit /\ q % 2 = 1) THEN q + 1 ELSE q
    IN  Sgn(x) * n

\* np.clip(x, lo, hi)
Clip(x, lo, hi) == Min2(Max2(x, lo), hi)

\* floor of the square root of n >= 0, by bisection on [lo, hi]
RECURSIVE ISqrtIn(_, _, _)
ISqrtIn(n, lo, hi) ==
    IF lo >= hi THEN lo
    ELSE LET mid == (lo + hi + 1) \div 2
         IN  IF mid * mid <= n THEN ISqrtIn(n, mid, hi) ELSE ISqrtIn(n, lo, mid - 1)

ISqrt(n) == ISqrtIn(n, 0, Min2(n, 46340))

\* e^k for the integers k of -7 .. 7, times S
ExpTable ==
    [k \in -7 .. 7 |->
        CASE k = -7 -> 9      [] k = -6 -> 25     [] k = -5 -> 67
          [] k = -4 -> 183    [] k = -3 -> 498    [] k = -2 -> 1353
          [] k = -1 -> 3679   [] k = 0 -> 10000   [] k = 1 -> 27183
          [] k = 2 -> 73891   [] k = 3 -> 200855  [] k = 4 -> 545982
          [] k = 5 -> 1484132 [] k = 6 -> 4034288 [] k = 7 -> 10966332]

\* e^f for 0 <= f < 1 by its Taylor series to the sixth power
ExpFrac(f) ==
    LET f2 == FMulPos(f, f)
        f3 == FMulPos(f2, f)
        f4 == FMulPos(f3, f)
        f5 == FMulPos(f4, f)
        f6 == FMulPos(f5, f)
    IN  S + f + f2 \div 2 + f3 \div 6 + f4 \div 24 + f5 \div 120 + f6 \div 720

\* np.exp(x) = e^k * e^f with k the integer part of x, saturated outside [-7, 7]
Exp(x) ==
    LET k == x \div S
        f == x % S
    IN  IF k < -7 THEN 0
        ELSE IF k >= 7 THEN ExpTable[7]
        ELSE FMulPos(ExpTable[k], ExpFrac(f))

(***************************************************************************)
(* Indicator pipeline (pandas).  A price series is a sequence of closes,   *)
(* oldest first; position n is the latest row.                             *)
(***************************************************************************)
MA50Window == 50

MA200Window == 200

High90Window == 90

Vol20Window == 20

MomentumPeriods == 30

RsiPeriod == 14

\* The folds below split their range in halves: the recursion stays shallow.
RECURSIVE SumRange(_, _, _)
SumRange(s, lo, hi) ==
    IF lo > hi THEN 0
    ELSE IF lo = hi THEN s[lo]
    ELSE LET mid == (lo + hi) \div 2
         IN  SumRange(s, lo, mid) + SumRange(s, mid + 1, hi)

RECURSIVE MaxRange(_, _, _)
MaxRange(s, lo, hi) ==
    IF lo >= hi THEN s[hi]
    ELSE LET mid == (lo + hi) \div 2
         IN  Max2(MaxRange(s, lo, mid), MaxRange(s, mid + 1, hi))

\* first row of the trailing window of w rows that ends at row n
WindowStart(n, w) == Max2(1, n - w + 1)

\* series.rolling(w, min_periods=1).mean() at row n
RollingMean(s, n, w) ==
    IF n < 1 THEN NaN
    ELSE SumRange(s, WindowStart(n, w), n) \div (n - WindowStart(n, w) + 1)

\* series.rolling(w, min_periods=1).max() at row n
RollingMax(s, n, w) == IF n < 1 THEN NaN ELSE MaxRange(s, WindowStart(n, w), n)

\* series.pct_change(periods=p) at row t
PctChange(s, t, p) ==
    IF t - p < 1 \/ s[t - p] = 0 THEN NaN ELSE FDiv(s[t], s[t - p]) - S

RECURSIVE PctSum(_, _, _)
PctSum(s, lo, hi) ==
    IF lo > hi THEN 0
    ELSE IF lo = hi THEN PctChange(s, lo, 1)
    ELSE LET mid == (lo + hi) \div 2
         IN  PctSum(s, lo, mid) + PctSum(s, mid + 1, hi)

RECURSIVE PctSumSq(_, _, _)
PctSumSq(s, lo, hi) ==
    IF lo > hi THEN 0
    ELSE IF lo = hi THEN PctChange(s, lo, 1) * PctChange(s, lo, 1)
    ELSE LET mid == (lo + hi) \div 2
         IN  PctSumSq(s, lo, mid) + PctSumSq(s, mid + 1, hi)

\* series.pct_change().rolling(w, min_periods=1).std() at row n: the sample
\* standard deviation (ddof = 1) of the daily changes in the window; row 1 has
\* no change, and fewer than two changes give NaN
RollingStdPct(s, n, w) ==
    LET lo == Max2(2, WindowStart(n, w))
        k  == n - lo + 1
    IN  IF k < 2 THEN NaN
        ELSE LET sm == PctSum(s, lo, n)
                 sq == PctSumSq(s, lo, n)
             IN  ISqrt((k * sq - sm * sm) \div (k * (k - 1)))

\* one step of ewm(com=period-1, adjust=False).mean(): alpha = 1/period. A
\* float average that was ever positive stays positive over these lengths.
EwmStep(prev, x) ==
    LET num == (RsiPeriod - 1) * prev + x
    IN  IF num > 0 THEN Max2(1, num \div RsiPeriod) ELSE 0

\* delta.clip(lower=0) and -1 * delta.clip(upper=0) at row t >= 2
UpMove(s, t) == Max2(s[t] - s[t - 1], 0)

DownMove(s, t) == Max2(s[t - 1] - s[t], 0)

\* the average of the up moves after rows lo .. hi, from the average prev (the
\* first test evaluates prev before the fold descends)
RECURSIVE EwmUp(_, _, _, _)
EwmUp(prev, s, lo, hi) ==
    IF prev < 0 \/ lo > hi THEN prev
    ELSE IF lo = hi THEN EwmStep(prev, UpMove(s, lo))
    ELSE EwmUp(EwmUp(prev, s, lo, (lo + hi) \div 2), s, (lo + hi) \div 2 + 1, hi)

RECURSIVE EwmDown(_, _, _, _)
EwmDown(prev, s, lo, hi) ==
    IF prev < 0 \/ lo > hi THEN prev
    ELSE IF lo = hi THEN EwmStep(prev, DownMove(s, lo))
    ELSE EwmDown(EwmDown(prev, s, lo, (lo + hi) \div 2), s, (lo + hi) \div 2 + 1, hi)

\* a variant of the definition below that a property about it must tell apart
\* from the code: the ratio of the averages as a percentage, not 100 - 100/(1+rs)
RatioAsRsi(s, n) ==
    IF n < 2 THEN NaN
    ELSE LET ema_up   == EwmUp(UpMove(s, 2), s, 3, n)
             ema_down == EwmDown(DownMove(s, 2), s, 3, n)
         IN  IF ema_down = 0
             THEN IF ema_up = 0 THEN NaN ELSE 100 * S
             ELSE 100 * FDiv(ema_up, ema_down)

\* compute_rsi(series, 14) at row n; series.diff() is NaN at row 1
compute_rsi(s, n) ==
    IF n < 2 THEN NaN
    ELSE LET ema_up   == EwmUp(UpMove(s, 2), s, 3, n)
             ema_down == EwmDown(DownMove(s, 2), s, 3, n)
         IN  IF ema_down = 0
             THEN IF ema_up = 0 THEN NaN ELSE 100 * S
             ELSE 100 * S - FDiv(100 * S, S + FDiv(ema_up, ema_down))

(***************************************************************************)
(* Configuration values.  A configuration (a Python dict, possibly with    *)
(* nested dicts) is a function from paths to leaf values: the path         *)
(* <<"weights", "rsi14">> is config["weights"]["rsi14"].  A leaf is tagged *)
(* with its Python type.                                                   *)
(***************************************************************************)
Num(n) == [k |-> "num", v |-> n]

Str(s) == [k |-> "str", v |-> s]

Bool(b) == [k |-> "bool", v |-> b]

List(l) == [k |-> "list", v |-> l]

IsNum(x) == x.k = "num"

EmptyDict == << >>

\* d[key] for the nested dict under key: the paths below key, shortened
SubDict(config, key) ==
    LET names == {p[2] : p \in {q \in DOMAIN config : Len(q) = 2 /\ q[1] = key}}
    IN  [n \in names |-> config[<<key, n>>]]

\* a function given by one pair, and the union of two functions (left wins)
Pair(a, b) == [x \in {a} |-> b]

Merge(f, g) ==
    [x \in DOMAIN f \cup DOMAIN g |-> IF x \in DOMAIN f THEN f[x] ELSE g[x]]

(***************************************************************************)
(* Formula expressions.  A formula is a text; eval() parses it and         *)
(* evaluates the expression in the namespace the scoring function passes.  *)
(* The texts of the model and their syntax trees:                          *)
(***************************************************************************)
ENum(n) == [op |-> "num", v |-> n]

EVar(x) == [op |-> "var", name |-> x]

EBin(f, l, r) == [op |-> "bin", f |-> f, l |-> l, r |-> r]

ECall(fn, args) == [op |-> "call", fn |-> fn, args |-> args]

ESyntaxError == [op |-> "syntax_error"]

ParseExpr(text) ==
    CASE text = "1.0" -> ENum(S)
      [] text = "0.5" -> ENum(5000)
      [] text = "2.0" -> ENum(2 * S)
      [] text = "-1.0" -> ENum(-S)
      [] text = "drawdown * 10" -> EBin("*", EVar("drawdown"), ENum(10 * S))
      [] text = "min(drawdown / cap, 1.0)" ->
            ECall("min", <<EBin("/", EVar("drawdown"), EVar("cap")), ENum(S)>>)
      [] text = "undefined_fn(rsi)" -> ECall("undefined_fn", <<EVar("rsi")>>)
      [] text = "(70 - rsi) / 40" ->
            EBin("/", EBin("-", ENum(70 * S), EVar("rsi")), ENum(40 * S))
      [] text = "1 / 0" -> EBin("/", ENum(S), ENum(0))
      [] text = "max(0.0, 1.0 - close / ma50)" ->
            ECall("max", <<ENum(0),
                           EBin("-", ENum(S), EBin("/", EVar("close"), EVar("ma50")))>>)
      [] text = "abs(momentum)" -> ECall("abs", <<EVar("momentum")>>)
      [] text = "log(close)" -> ECall("log", <<EVar("close")>>)
      [] text = "rsi14 / 100" -> EBin("/", EVar("rsi14"), ENum(100 * S))
      [] text = "float(momentum) + 0.5" ->
            EBin("+", ECall("float", <<EVar("momentum")>>), ENum(5000))
      [] text = "1.0 - vol20 / cap" ->
            EBin("-", ENum(S), EBin("/", EVar("vol20"), EVar("cap")))
      [] OTHER -> ESyntaxError

\* the outcome of an evaluation: a number, or an exception
Ok(n) == [ok |-> TRUE, v |-> n]

Raised == [ok |-> FALSE, v |-> 0]

\* eval() is given a globals dict without "__builtins__": Python then adds the
\* builtins itself, so their functions are callable from every formula
BuiltinFns == {"abs", "min", "max", "float", "round", "pow"}

ArithOp(f, a, b) ==
    IF IsNaN(a) \/ IsNaN(b) THEN Ok(NaN)
    ELSE CASE f = "+" -> Ok(a + b)
           [] f = "-" -> Ok(a - b)
           [] f = "*" -> Ok(FMul(a, b))
           [] f = "/" -> IF b = 0 THEN Raised ELSE Ok(FDiv(a, b))

CallFn(fn, a) ==
    CASE fn = "min" -> IF Len(a) = 2 THEN Ok(IF a[2] < a[1] THEN a[2] ELSE a[1]) ELSE Raised
      [] fn = "max" -> IF Len(a) = 2 THEN Ok(IF a[2] > a[1] THEN a[2] ELSE a[1]) ELSE Raised
      [] fn = "abs" -> IF Len(a) = 1 THEN Ok(Abs(a[1])) ELSE Raised
      [] fn = "float" -> IF Len(a) = 1 THEN Ok(a[1]) ELSE Raised
      [] fn = "exp" -> IF Len(a) = 1 THEN Ok(Exp(a[1])) ELSE Raised
      [] OTHER -> Raised

\* the value of expression e with the names vars and the callables fns
RECURSIVE EvalExpr(_, _, _)
EvalExpr(e, vars, fns) ==
    CASE e.op = "num" -> Ok(e.v)
      [] e.op = "var" -> IF e.name \in DOMAIN vars THEN Ok(vars[e.name]) ELSE Raised
      [] e.op = "bin" ->
            LET l == EvalExpr(e.l, vars, fns)
                r == EvalExpr(e.r, vars, fns)
            IN  IF l.ok /\ r.ok THEN ArithOp(e.f, l.v, r.v) ELSE Raised
      [] e.op = "call" ->
            LET a == [i \in DOMAIN e.args |-> EvalExpr(e.args[i], vars, fns)]
            IN  IF e.fn \in fns \cup BuiltinFns /\ \A i \in DOMAIN a : a[i].ok
                THEN CallFn(e.fn, [i \in DOMAIN a |-> a[i].v])
                ELSE Raised
      [] OTHER -> Raised

\* eval(text, globals)
eval(text, vars, fns) == EvalExpr(ParseExpr(text), vars, fns)

(***************************************************************************)
(* ScoringEngine (core/scoring.py)                                         *)
(***************************************************************************)
DefaultDrawdownCap == 2500

DefaultVolatilityCap == 1000

\* config.get(key, default) for a top-level leaf
ConfigGet(config, key, default) ==
    IF <<key>> \in DOMAIN config THEN config[<<key>>] ELSE default

\* config.get(key, {}): the mapping under key, or the value that is there
\* instead of a mapping
DictGet(config, key) ==
    IF <<key>> \in DOMAIN config THEN config[<<key>>] ELSE SubDict(config, key)

IsDict(x) == DOMAIN x # {"k", "v"}

\* ScoringEngine.__init__: the fields read from the configuration
ScoringEngine(config) ==
    [ config          |-> config,
      weights         |-> DictGet(config, "weights"),
      formula_weights |-> DictGet(config, "formula_weights"),
      drawdown_cap    |-> ConfigGet(config, "drawdown_cap", Num(DefaultDrawdownCap)),
      volatility_cap  |-> ConfigGet(config, "volatility_cap", Num(DefaultVolatilityCap)),
      formulas        |-> SubDict(config, "formulas") ]

\* the namespace entry of a cap: a cap that is not a number makes every
\* arithmetic use of it raise, as a missing name does
CapVar(cap) == IF IsNum(cap) THEN Pair("cap", cap.v) ELSE EmptyDict

\* the custom formula under name, evaluated with vars and fns; a formula that is
\* not a text makes eval raise
EvalFormula(self, name, vars, fns) ==
    IF self.formulas[name].k = "str"
    THEN eval(self.formulas[name].v, vars, fns)
    ELSE Raised

\* x / cap in the default formulas: Python raises on a zero or non-numeric cap
DivByCap(x, cap) ==
    IF IsNum(cap) /\ cap.v # 0 THEN Ok(FDiv(x, cap.v)) ELSE Raised

score_drawdown_default(self, drawdown) ==
    IF drawdown <= 0 THEN Ok(0)
    ELSE LET q == DivByCap(drawdown, self.drawdown_cap)
         IN  IF q.ok THEN Ok(Min2(q.v, S)) ELSE Raised

score_drawdown(self, drawdown) ==
    LET custom == EvalFormula(self, "drawdown",
                      Merge(Pair("drawdown", drawdown), CapVar(self.drawdown_cap)),
                      {"np", "min", "max"})
    IN  IF "drawdown" \in DOMAIN self.formulas /\ custom.ok
        THEN custom
        ELSE score_drawdown_default(self, drawdown)

score_rsi_default(rsi) == Ok(Clip(FDiv(70 * S - rsi, 40 * S), 0, S))

score_rsi(self, rsi) ==
    LET custom == EvalFormula(self, "rsi", Pair("rsi", rsi), {"np", "min", "max"})
    IN  IF "rsi" \in DOMAIN self.formulas /\ custom.ok
        THEN custom
        ELSE score_rsi_default(rsi)

score_dist_ma50_default(close, ma50) ==
    IF IsNaN(ma50) \/ ma50 = 0 THEN Ok(0)
    ELSE Ok(Clip(S - FDiv(close, ma50), 0, S))

score_dist_ma50(self, close, ma50) ==
    LET custom == EvalFormula(self, "dist_ma50",
                      Merge(Pair("close", close), Pair("ma50", ma50)),
                      {"np", "min", "max"})
    IN  IF "dist_ma50" \in DOMAIN self.formulas /\ custom.ok
        THEN custom
        ELSE score_dist_ma50_default(close, ma50)

score_momentum_default(momentum) ==
    Ok(Clip(FDiv(S, S + Exp(6 * momentum)), 0, S))

score_momentum(self, momentum) ==
    LET custom == EvalFormula(self, "momentum", Pair("momentum", momentum),
                      {"np", "min", "max", "exp"})
    IN  IF "momentum" \in DOMAIN self.formulas /\ custom.ok
        THEN custom
        ELSE score_momentum_default(momentum)

\* a variant of the definition below that a property about it must tell apart
\* from the code: a close equal to its MA200 counts as above it
TrendAtOrAbove(close, ma200) ==
    IF IsNaN(ma200) \/ ma200 = 0 THEN Ok(5000)
    ELSE IF close >= ma200 THEN Ok(S) ELSE Ok(3000)

score_trend_ma200_default(close, ma200) ==
    IF IsNaN(ma200) \/ ma200 = 0 THEN Ok(5000)
    ELSE IF close > ma200 THEN Ok(S) ELSE Ok(3000)

score_trend_ma200(self, close, ma200) ==
    LET custom == EvalFormula(self, "trend_ma200",
                      Merge(Pair("close", close), Pair("ma200", ma200)),
                      {"np", "min", "max"})
    IN  IF "trend_ma200" \in DOMAIN self.formulas /\ custom.ok
        THEN custom
        ELSE score_trend_ma200_default(close, ma200)

score_volatility_default(self, vol20) ==
    IF vol20 <= 0 THEN Ok(S)
    ELSE LET q == DivByCap(vol20, self.volatility_cap)
         IN  IF q.ok THEN Ok(Clip(S - q.v, 0, S)) ELSE Raised

score_volatility(self, vol20) ==
    LET custom == EvalFormula(self, "volatility",
                      Merge(Pair("vol20", vol20), CapVar(self.volatility_cap)),
                      {"np", "min", "max"})
    IN  IF "volatility" \in DOMAIN self.formulas /\ custom.ok
        THEN custom
        ELSE score_volatility_default(self, vol20)

\* the six terms of the composite: the key of its weight and the weight used
\* when neither formula_weights nor weights has the key
WeightKeys ==
    <<"drawdown90", "rsi14", "dist_ma50", "momentum30", "trend_ma200", "volatility20">>

HardcodedWeight ==
    [drawdown90 |-> 2500, rsi14 |-> 2500, dist_ma50 |-> 2000,
     momentum30 |-> 1500, trend_ma200 |-> 1000, volatility20 |-> 500]

\* what stands for a weight when the lookup of the weight raises
NoWeight == Str("AttributeError")

\* self.formula_weights.get(key, self.weights.get(key, default)): both lookups
\* are made, and one on a value that is not a mapping raises
WeightOf(self, key) ==
    IF ~IsDict(self.formula_weights) \/ ~IsDict(self.weights) THEN NoWeight
    ELSE IF key \in DOMAIN self.formula_weights THEN self.formula_weights[key]
    ELSE IF key \in DOMAIN self.weights THEN self.weights[key]
    ELSE Num(HardcodedWeight[key])

\* weight * score, exact for a weight of three decimals, in units of 1e-7
Term(w, sc) == (w \div 10) * sc

\* the weighted sum of the six scores scs (in the order of WeightKeys)
Composite(self, scs) ==
    IF \A i \in 1 .. 6 : IsNum(WeightOf(self, WeightKeys[i])) /\ ~IsNaN(scs[i])
    THEN Ok(Term(WeightOf(self, WeightKeys[1]).v, scs[1])
            + Term(WeightOf(self, WeightKeys[2]).v, scs[2])
            + Term(WeightOf(self, WeightKeys[3]).v, scs[3])
            + Term(WeightOf(self, WeightKeys[4]).v, scs[4])
            + Term(WeightOf(self, WeightKeys[5]).v, scs[5])
            + Term(WeightOf(self, WeightKeys[6]).v, scs[6]))
    ELSE Raised

\* round(x, d) of a float x, in units of `unit'; NaN stays NaN
Round(x, unit) == IF IsNaN(x) THEN NaN ELSE RoundTo(x, unit)

\* the fallback of an indicator that is NaN
OrElse(x, fallback) == IF IsNaN(x) THEN fallback ELSE x

(***************************************************************************)
(* Price series, and the indicator columns of their last row               *)
(***************************************************************************)
\* the hard precondition of a historical score: 200 rows
MinHistory == 200

\* series are up to ShortBy rows shorter and ExtraRows rows longer than the
\* 200 rows a historical score needs; date_idx starts IdxBelow below 199
ShortBy == 1

ExtraRows == 1

IdxBelow == 1

Shapes == {"flat", "drop", "rally", "slide", "swing"}

\* the close of day i (1-based) of a series of the given shape
CloseAt(shape, i) ==
    CASE shape = "flat"   -> 100 * S
      [] shape = "drop"   -> IF i < MinHistory THEN 100 * S ELSE 90 * S
      [] shape = "rally"  -> IF i <= MinHistory THEN 100 * S ELSE 110 * S
      [] shape = "slide"  -> (130 - i \div 10) * S
      [] shape = "swing"  -> (100 + 2 * (i % 3)) * S

MakeSeries(shape, n) == [i \in 1 .. n |-> CloseAt(shape, i)]

Lengths == (MinHistory - ShortBy) .. (MinHistory + ExtraRows)

\* a live score is also asked for a fund listed days ago: 1 to ShortRows rows
ShortRows == 2

\* and over a long download, longer than every rolling window
LongRows == 300

LiveLengths == Lengths \cup (1 .. ShortRows) \cup {LongRows}

\* the series a download can give
Downloads == [shape \in Shapes |-> [n \in LiveLengths |-> MakeSeries(shape, n)]]

\* df.dropna(): the rows without a missing value
DropNa(df) == SelectSeq(df, LAMBDA c : ~IsNaN(c))

\* what yf.download gives for each ticker during a run of the daily job: the
\* few rows of a fund listed days ago (one with a row without a value), rows
\* that all lack a value, an exception, or nothing
Market ==
    [ AAA |-> [ok |-> TRUE, df |-> <<100 * S, NaN, 90 * S, 93 * S>>],
      BBB |-> [ok |-> TRUE, df |-> <<100 * S, 104 * S>>],
      CCC |-> [ok |-> FALSE, df |-> << >>],
      DDD |-> [ok |-> TRUE, df |-> << >>],
      XXX |-> [ok |-> TRUE, df |-> <<NaN, NaN>>] ]

\* the frames the daily job computes indicators on
MarketFrames == {DropNa(Market[t].df) : t \in DOMAIN Market} \ {<< >>}

\* the positions of a series of n rows a historical score is asked for
DateIdxs(n) == {0} \cup ((MinHistory - 1 - IdxBelow) .. (n - 1))

\* the lengths of the frames a call computes indicators on: the series and
\* their prefixes up to a date_idx
FrameLengths == LiveLengths \cup UNION {{i + 1 : i \in DateIdxs(n)} : n \in Lengths}

Frames ==
    {MakeSeries(shape, n) : shape \in Shapes, n \in FrameLengths} \cup MarketFrames

\* the indicator columns MA50, MA200, RSI14, High90, Drawdown90, Vol20 and
\* Momentum30 computed on df, read at its last row
LastRow(df) ==
    LET n      == Len(df)
        High90 == RollingMax(df, n, High90Window)
    IN  [ Close      |-> df[n],
          MA50       |-> RollingMean(df, n, MA50Window),
          MA200      |-> RollingMean(df, n, MA200Window),
          RSI14      |-> compute_rsi(df, n),
          High90     |-> High90,
          Drawdown90 |-> IF High90 = 0 THEN NaN ELSE FDiv(High90 - df[n], High90),
          Vol20      |-> RollingStdPct(df, n, Vol20Window),
          Momentum30 |-> PctChange(df, n, MomentumPeriods) ]

\* the columns are a function of the frame alone: computed once per frame
Indicators == [df \in Frames |-> LastRow(df)]

\* the outcomes of a scoring call besides a result
None == [kind |-> "none"]

Raise == [kind |-> "raise"]

\* a variant of the definition below that a property about it must tell apart
\* from the code: the RSI column as it is, without its fallback
RsiAsIs(latest) ==
    [ close      |-> latest.Close,
      ma50       |-> latest.MA50,
      ma200      |-> latest.MA200,
      rsi14      |-> latest.RSI14,
      drawdown90 |-> OrElse(latest.Drawdown90, 0),
      vol20      |-> OrElse(latest.Vol20, 0),
      momentum30 |-> OrElse(latest.Momentum30, 0) ]

\* the values read from the latest row: a missing RSI, drawdown, volatility
\* or momentum is replaced by its fallback, a missing average is passed on
LatestValues(latest) ==
    [ close      |-> latest.Close,
      ma50       |-> latest.MA50,
      ma200      |-> latest.MA200,
      rsi14      |-> OrElse(latest.RSI14, 50 * S),
      drawdown90 |-> OrElse(latest.Drawdown90, 0),
      vol20      |-> OrElse(latest.Vol20, 0),
      momentum30 |-> OrElse(latest.Momentum30, 0) ]

\* the six scores of these values, in the order of the composite
SixScores(self, v) ==
    << score_drawdown(self, v.drawdown90),
       score_rsi(self, v.rsi14),
       score_dist_ma50(self, v.close, v.ma50),
       score_momentum(self, v.momentum30),
       score_trend_ma200(self, v.close, v.ma200),
       score_volatility(self, v.vol20) >>

\* a variant of the definition below that a property about it must tell apart
\* from the code: a name that is not resolved is reported as unknown
NameOrUnknown(ticker, info) ==
    IF info.ok /\ info.name # "" THEN info.name ELSE "unknown"

\* the display name: info.get("longName") or info.get("shortName") or ticker,
\* and the ticker when yf.Ticker or .info raises
ProductName(ticker, info) ==
    IF info.ok /\ info.name # "" THEN info.name ELSE ticker

\* compute_scores_for_ticker(ticker, period). info is what yf.Ticker(ticker).info
\* gives (ok = FALSE: it raised; name: longName or shortName, "" when neither is
\* set) and download what yf.download gives (ok = FALSE: it raised; df: the
\* closes, empty when there is no data).  As in the code, the values are read
\* once, then the scores are computed once, then the result is made of them:
\* Scored and Result are functions of what the step before them computed.
compute_scores_for_ticker(self, ticker, info, download) ==
    LET product_name == ProductName(ticker, info)
        df           == DropNa(download.df)
        Scored[v \in {LatestValues(Indicators[df])}] ==
            LET Result[scs \in {SixScores(self, v)}] ==
                    LET composite == Composite(self, [i \in 1 .. 6 |-> scs[i].v])
                    IN  IF (\E i \in 1 .. 6 : ~scs[i].ok) \/ ~composite.ok THEN Raise
                        ELSE [ kind           |-> "result",
                               ticker         |-> ticker,
                               product_name   |-> product_name,
                               score          |-> RoundTo(composite.v, 10000),
                               close          |-> v.close,
                               ma50           |-> v.ma50,
                               ma200          |-> v.ma200,
                               rsi14          |-> Round(v.rsi14, 100),
                               drawdown90_pct |-> Round(100 * v.drawdown90, 100),
                               vol20_pct      |-> Round(100 * v.vol20, 100),
                               momentum30_pct |-> Round(100 * v.momentum30, 100),
                               components     |->
                                   [ drawdown   |-> Round(scs[1].v, 10),
                                     rsi        |-> Round(scs[2].v, 10),
                                     ma50       |-> Round(scs[3].v, 10),
                                     momentum   |-> Round(scs[4].v, 10),
                                     trend      |-> Round(scs[5].v, 10),
                                     volatility |-> Round(scs[6].v, 10) ] ]
            IN  Result[SixScores(self, v)]
    IN  IF ~download.ok \/ download.df = << >> THEN None
        ELSE IF df = << >> THEN Raise
        ELSE Scored[LatestValues(Indicators[df])]

\* variants of the two definitions below that a property about them must
\* tell apart from the code: the whole series instead of the prefix, and a
\* threshold that is off by one
WholeSeries(df, date_idx) == df

OneRowMore(historical_data) == Len(historical_data) <= MinHistory

\* df.iloc[:date_idx + 1] for date_idx >= 0
Prefix(df, date_idx) == SubSeq(df, 1, Min2(date_idx + 1, Len(df)))

InsufficientHistory(historical_data) == Len(historical_data) < MinHistory

\* compute_score_at_date(df, date_idx)
compute_score_at_date(self, df, date_idx) ==
    LET historical_data == Prefix(df, date_idx)
        n          == Len(historical_data)
        v          == LatestValues(Indicators[historical_data])
        scs        == SixScores(self, v)
        composite  == Composite(self, [i \in 1 .. 6 |-> scs[i].v])
    IN  IF InsufficientHistory(historical_data) THEN None
        ELSE IF (\E i \in 1 .. 6 : ~scs[i].ok) \/ ~composite.ok THEN Raise
        ELSE [ kind             |-> "result",
               date             |-> n,
               score            |-> RoundTo(composite.v, 10000),
               close            |-> v.close,
               rsi14            |-> Round(v.rsi14, 100),
               ma50             |-> v.ma50,
               ma200            |-> v.ma200,
               drawdown90_pct   |-> Round(100 * v.drawdown90, 100),
               vol20_pct        |-> Round(100 * v.vol20, 100),
               momentum30_pct   |-> Round(100 * v.momentum30, 100),
               score_drawdown   |-> Round(100 * scs[1].v, 1000),
               score_rsi        |-> Round(100 * scs[2].v, 1000),
               score_ma50       |-> Round(100 * scs[3].v, 1000),
               score_momentum   |-> Round(100 * scs[4].v, 1000),
               score_trend      |-> Round(100 * scs[5].v, 1000),
               score_volatility |-> Round(100 * scs[6].v, 1000) ]

(***************************************************************************)
(* Inputs of the scoring calls: price series and engine configurations     *)
(***************************************************************************)
Tickers == {"AAA", "BBB", "CCC"}

\* what yf.Ticker(ticker).info gives for each ticker: it has a name, has none,
\* or raises
TickerInfo ==
    [ AAA |-> [ok |-> TRUE, name |-> "Alpha Fund"],
      BBB |-> [ok |-> TRUE, name |-> ""],
      CCC |-> [ok |-> FALSE, name |-> ""],
      DDD |-> [ok |-> TRUE, name |-> ""],
      XXX |-> [ok |-> FALSE, name |-> ""] ]

\* the entries of a nested dict of numbers, or of texts, under key
NumDict(key, rec) == [p \in {<<key, n>> : n \in DOMAIN rec} |-> Num(rec[p[2]])]

StrDict(key, rec) == [p \in {<<key, n>> : n \in DOMAIN rec} |-> Str(rec[p[2]])]

WeightTable(a, b, c, d, e, f) ==
    [drawdown90 |-> a, rsi14 |-> b, dist_ma50 |-> c,
     momentum30 |-> d, trend_ma200 |-> e, volatility20 |-> f]

DefaultWeights == WeightTable(2500, 2500, 2000, 1500, 1000, 500)

\* the configurations an engine is constructed with
EngineConfigs ==
    [ default  |-> Merge(NumDict("weights", DefaultWeights),
                         Merge(Pair(<<"drawdown_cap">>, Num(2500)),
                               Pair(<<"volatility_cap">>, Num(1000)))),
      empty    |-> EmptyDict,
      zero     |-> NumDict("formula_weights", WeightTable(0, 0, 0, 0, 0, 0)),
      w6040    |-> NumDict("formula_weights", WeightTable(6000, 4000, 0, 0, 0, 0)),
      w3020    |-> NumDict("formula_weights", WeightTable(3000, 2000, 0, 0, 0, 0)),
      throws   |-> Merge(NumDict("formula_weights", WeightTable(5000, 5000, 0, 0, 0, 0)),
                         StrDict("formulas",
                                 [drawdown |-> "1.0", rsi |-> "undefined_fn(rsi)"])),
      broken   |-> Merge(NumDict("weights", DefaultWeights),
                         StrDict("formulas",
                                 [dist_ma50 |-> "1.0 - (close / ma50",
                                  momentum |-> "1 / 0",
                                  trend_ma200 |-> "log(close)"])),
      unclamped |-> Merge(NumDict("weights", DefaultWeights),
                          StrDict("formulas",
                                  [drawdown |-> "drawdown * 10", rsi |-> "-1.0"])),
      custom   |-> Merge(NumDict("formula_weights", DefaultWeights),
                         StrDict("formulas",
                                 [drawdown |-> "min(drawdown / cap, 1.0)",
                                  rsi |-> "(70 - rsi) / 40",
                                  dist_ma50 |-> "max(0.0, 1.0 - close / ma50)",
                                  momentum |-> "abs(momentum)"])),
      negative |-> NumDict("formula_weights", WeightTable(-5000, 10000, 0, 0, 0, 0)),
      allneg   |-> NumDict("formula_weights", WeightTable(-5000, -5000, 0, 0, 0, 0)),
      heavy    |-> NumDict("weights", WeightTable(10000, 10000, 10000, 10000, 10000, 10000)),
      idle     |-> Merge(NumDict("formula_weights", WeightTable(0, 10000, 0, 0, 0, 0)),
                         StrDict("formulas", [drawdown |-> "2.0"])),
      named    |-> Merge(NumDict("formula_weights",
                                 [rsi14 |-> 5000, drawdown |-> 5000, drawdown90 |-> 0,
                                  dist_ma50 |-> 0, momentum30 |-> 0, trend_ma200 |-> 0,
                                  volatility20 |-> 0]),
                         StrDict("formulas", [rsi14 |-> "1.0", drawdown |-> "1.0"])),
      sandbox  |-> Merge(NumDict("weights", DefaultWeights),
                         StrDict("formulas",
                                 [rsi |-> "rsi14 / 100",
                                  momentum |-> "float(momentum) + 0.5"])),
      badcap   |-> Merge(NumDict("weights", DefaultWeights),
                         Merge(Pair(<<"drawdown_cap">>, Num(-2500)),
                               Pair(<<"volatility_cap">>, Num(-1000)))) ]

ConfigNames == DOMAIN EngineConfigs

(***************************************************************************)
(* ConfigManager (core/config.py).  The override store is the config table *)
(* (rows of key and text, in rowid order), the formulas table and the      *)
(* tickers table; the static document is the YAML file.                    *)
(***************************************************************************)
\* the outcome of json.loads: a value, or a JSONDecodeError
Parsed(v) == [ok |-> TRUE, v |-> v]

JSONDecodeError == [ok |-> FALSE, v |-> Str("")]

\* json.loads(text) for the texts the store can hold
JsonLoads(text) ==
    CASE text = "0.5"   -> Parsed(Num(5000))
      [] text = "0.3"   -> Parsed(Num(3000))
      [] text = "true"  -> Parsed(Bool(TRUE))
      [] OTHER          -> JSONDecodeError

\* json.dumps(value) for the values written
JsonDumps(value) ==
    CASE value = Num(5000)   -> "0.5"
      [] value = Num(3000)   -> "0.3"
      [] value = Bool(TRUE)  -> "true"

\* key.split(".")
KeyParts(key) ==
    CASE key = "weights.rsi14" -> <<"weights", "rsi14">>
      [] key = "alerts.level"  -> <<"alerts", "level">>
      [] OTHER                 -> <<key>>

IsPrefix(p, q) == Len(p) <= Len(q) /\ SubSeq(q, 1, Len(p)) = p

\* d[...] = v at a path: what was there, a value or a mapping, is replaced
SetItem(config, path, v) ==
    LET kept == {q \in DOMAIN config : ~IsPrefix(path, q)}
    IN  Merge(Pair(path, v), [q \in kept |-> config[q]])

\* d.setdefault at a path
SetDefault(config, path, v) ==
    IF \E q \in DOMAIN config : IsPrefix(path, q) THEN config
    ELSE Merge(config, Pair(path, v))

\* the YAML file: missing, empty, or a document
YamlFiles == {"missing", "empty", "base"}

\* the tickers of the static document
StaticTickers == <<"BBB", "XXX", "CCC", "DDD", "AAA">>

BaseDocument ==
    Merge(Pair(<<"data_period">>, Str("90d")),
    Merge(Pair(<<"drawdown_cap">>, Num(3000)),
    Merge(Pair(<<"weights", "rsi14">>, Num(4000)),
    Merge(Pair(<<"alerts">>, Bool(TRUE)),
    Merge(Pair(<<"tickers">>, List(StaticTickers)),
    Merge(StrDict("formulas", [rsi |-> "(70 - rsi) / 40", momentum |-> "abs(momentum)"]),
          NumDict("formula_weights", [rsi |-> 4000, momentum |-> 1000])))))))

load_yaml_config(file) == IF file = "base" THEN BaseDocument ELSE EmptyDict

\* the hardcoded defaults of get_config
ScalarDefaults ==
    <<  <<"data_period", Str("365d")>>,
        <<"drawdown_cap", Num(2500)>>,
        <<"volatility_cap", Num(1000)>>,
        <<"output_csv", Str("/data/scores_history.csv")>>,
        <<"log_file", Str("/data/bot_daily_score.log")>>,
        <<"timezone", Str("UTC")>>,
        <<"dev_mode", Bool(FALSE)>>  >>

RECURSIVE SetScalarDefaults(_, _)
SetScalarDefaults(config, i) ==
    IF i > Len(ScalarDefaults) THEN config
    ELSE SetScalarDefaults(
             SetDefault(config, <<ScalarDefaults[i][1]>>, ScalarDefaults[i][2]), i + 1)

RECURSIVE SetWeightDefaults(_, _)
SetWeightDefaults(config, i) ==
    IF i > Len(WeightKeys) THEN config
    ELSE SetWeightDefaults(
             SetDefault(config, <<"weights", WeightKeys[i]>>,
                        Num(HardcodedWeight[WeightKeys[i]])), i + 1)

WithDefaults(config) == SetWeightDefaults(SetScalarDefaults(config, 1), 1)

\* the static document of each file with the defaults: the configuration
\* before the store is read
StaticLayer == [file \in YamlFiles |-> WithDefaults(load_yaml_config(file))]

\* one row of the config table applied to config.  A text that is not JSON is
\* kept as a string under the whole key.  A dotted key is walked part by part:
\* a part that holds a value instead of a mapping raises a TypeError, which the
\* handler of the row does not catch
ApplyRow(config, key, text) ==
    LET parsed == JsonLoads(text)
        parts  == KeyParts(key)
    IN  IF ~parsed.ok
        THEN [ok |-> TRUE, config |-> SetItem(config, <<key>>, Str(text))]
        ELSE IF Len(parts) > 1
        THEN IF \E j \in 1 .. Len(parts) - 1 : SubSeq(parts, 1, j) \in DOMAIN config
             THEN [ok |-> FALSE, config |-> config]
             ELSE [ok |-> TRUE, config |-> SetItem(config, parts, parsed.v)]
        ELSE [ok |-> TRUE, config |-> SetItem(config, <<key>>, parsed.v)]

\* the loop over the rows, from row i: it ends at the first row that raises
RECURSIVE ApplyRows(_, _, _)
ApplyRows(config, rows, i) ==
    IF i > Len(rows) THEN [ok |-> TRUE, config |-> config]
    ELSE LET r == ApplyRow(config, rows[i][1], rows[i][2])
         IN  IF r.ok THEN ApplyRows(r.config, rows, i + 1) ELSE r

\* config["formulas"] and config["formula_weights"] from the formulas table
FormulaDicts(formula_rows) ==
    Merge([p \in {<<"formulas", formula_rows[i].name>> : i \in DOMAIN formula_rows} |->
              Str((CHOOSE r \in {formula_rows[i] : i \in DOMAIN formula_rows} :
                      r.name = p[2]).formula)],
          [p \in {<<"formula_weights", formula_rows[i].name>> : i \in DOMAIN formula_rows} |->
              Num((CHOOSE r \in {formula_rows[i] : i \in DOMAIN formula_rows} :
                      r.name = p[2]).weight)])

WithFormulas(config, formula_rows) ==
    IF formula_rows = << >> THEN config
    ELSE LET kept == {q \in DOMAIN config : q[1] \notin {"formulas", "formula_weights"}}
         IN  Merge(FormulaDicts(formula_rows), [q \in kept |-> config[q]])

IsEnabled(row) == row.enabled

EnabledSymbols(ticker_rows) ==
    LET enabled == SelectSeq(ticker_rows, IsEnabled)
    IN  [i \in 1 .. Len(enabled) |-> enabled[i].symbol]

WithTickers(config, ticker_rows) ==
    IF EnabledSymbols(ticker_rows) = << >> THEN config
    ELSE SetItem(config, <<"tickers">>, List(EnabledSymbols(ticker_rows)))

\* where the store can fail while get_config reads it: at the connection, or at
\* one of the three queries (an sqlite3 error: the database is locked, a table
\* is missing)
Faults == {"none", "connect", "config", "formulas", "tickers"}

\* get_config: the document with the defaults, then the rows of the store, the
\* formulas and the enabled tickers.  config is changed in place, so an
\* exception of the store part ends the read with what was applied before it;
\* the handler logs it, and the connection, if it was opened, stays open
get_config(file, rows, formula_rows, ticker_rows, fault) ==
    LET config   == StaticLayer[file]
        override == ApplyRows(config, rows, 1)
        formulas == WithFormulas(override.config, formula_rows)
    IN  IF fault = "connect" THEN [config |-> config, closed |-> TRUE]
        ELSE IF fault = "config" THEN [config |-> config, closed |-> FALSE]
        ELSE IF ~override.ok \/ fault = "formulas"
        THEN [config |-> override.config, closed |-> FALSE]
        ELSE IF fault = "tickers" THEN [config |-> formulas, closed |-> FALSE]
        ELSE [config |-> WithTickers(formulas, ticker_rows), closed |-> TRUE]

\* set_config_value: a value that is not a string is stored as its JSON text;
\* INSERT OR REPLACE removes the row of the key and adds the new one
set_config_value(rows, key, value) ==
    LET text == IF value.k = "str" THEN value.v ELSE JsonDumps(value)
        kept == {i \in DOMAIN rows : rows[i][1] # key}
        Keep(i) == Cardinality({j \in kept : j <= i})
        rest == [n \in 1 .. Cardinality(kept) |->
                    rows[CHOOSE i \in kept : Keep(i) = n]]
    IN  Append(rest, <<key, text>>)

\* what get_config_value gives for a key that is absent: default, None
NoValue == [k |-> "none", v |-> ""]

\* a variant of the definition below that a property about it must tell apart
\* from the code: the configuration is looked up under the whole key only
GetWholeKey(config, key) ==
    IF <<key>> \in DOMAIN config THEN config[<<key>>] ELSE NoValue

\* get_config_value(key) on the configuration get_config returned: a dotted
\* key is walked part by part through the mappings, a flat key is looked up
\* with config.get; the value found (a mapping as it is) or the default
get_config_value(config, key) ==
    LET parts == KeyParts(key)
    IN  IF parts \in DOMAIN config THEN config[parts]
        ELSE IF \E q \in DOMAIN config : IsPrefix(parts, q)
        THEN [k |-> "dict", v |-> SubDict(config, parts[1])]
        ELSE NoValue

\* the rows of a table without those that satisfy Gone, in their order
Without(rows, Gone(_)) == SelectSeq(rows, LAMBDA r : ~Gone(r))

\* set_formula: INSERT OR REPLACE removes the row of the name and adds the new one
set_formula(rows, name, formula, weight) ==
    Append(Without(rows, LAMBDA r : r.name = name),
           [name |-> name, formula |-> formula, weight |-> weight])

\* set_formula_weight: UPDATE ... WHERE name = ?
set_formula_weight(rows, name, weight) ==
    [i \in DOMAIN rows |->
        IF rows[i].name = name THEN [rows[i] EXCEPT !.weight = weight] ELSE rows[i]]

\* delete_formula: DELETE ... WHERE name = ?
delete_formula(rows, name) == Without(rows, LAMBDA r : r.name = name)

\* add_ticker: INSERT OR REPLACE with enabled = 1
add_ticker(rows, symbol) ==
    Append(Without(rows, LAMBDA r : r.symbol = symbol),
           [symbol |-> symbol, enabled |-> TRUE])

\* remove_ticker: DELETE ... WHERE symbol = ?
remove_ticker(rows, symbol) == Without(rows, LAMBDA r : r.symbol = symbol)

\* toggle_ticker: UPDATE ... SET enabled = ? WHERE symbol = ?
toggle_ticker(rows, symbol, enabled) ==
    [i \in DOMAIN rows |->
        IF rows[i].symbol = symbol THEN [rows[i] EXCEPT !.enabled = enabled]
        ELSE rows[i]]

(***************************************************************************)
(* The admin pages for formulas and weights (web_app.py)                   *)
(***************************************************************************)
\* the outcome of float(text): a number, or a ValueError
ValueError == [ok |-> FALSE, v |-> 0]

\* float(request.form.get(field, 0.0)): a field the form does not have is 0.0
Float(text) ==
    CASE text = "absent" -> Ok(0)
      [] text = "1.0"    -> Ok(S)
      [] text = "0.5"    -> Ok(5000)
      [] OTHER           -> ValueError

\* the names of get_formulas(), and formulas.get(name, {}).get('weight', 0.0)
NamesIn(rows) == {rows[i].name : i \in DOMAIN rows}

WeightIn(rows, name) ==
    IF name \in NamesIn(rows)
    THEN (CHOOSE r \in {rows[i] : i \in DOMAIN rows} : r.name = name).weight
    ELSE 0

\* sum(...) of the weights of the rows from row i
RECURSIVE TotalWeight(_, _)
TotalWeight(rows, i) ==
    IF i > Len(rows) THEN 0 ELSE rows[i].weight + TotalWeight(rows, i + 1)

\* the rows with each weight replaced by the one the form gives
Submitted(rows, form) ==
    [i \in DOMAIN rows |-> [rows[i] EXCEPT !.weight = Float(form[rows[i].name]).v]]

\* abs(total - 1.0) > 0.01
SumIsOff(total) == Abs(total - S) > 100

\* weights_page, POST: every weight is read from the form, the sum is checked
\* and, if it is 1.0 within 0.01, each weight is written with
\* set_formula_weight; a field that is not a number ends in the handler
weights_page(rows, form) ==
    IF \E i \in DOMAIN rows : ~Float(form[rows[i].name]).ok
    THEN [rows |-> rows, flash |-> "error"]
    ELSE IF SumIsOff(TotalWeight(Submitted(rows, form), 1))
    THEN [rows |-> rows, flash |-> "error"]
    ELSE [rows |-> Submitted(rows, form), flash |-> "success"]

\* formulas_page, action add: the formula is stored with the weight 0.0
formulas_page_add(rows, name, formula) == set_formula(rows, name, formula, 0)

\* a variant of the definition below that a property about it must tell apart
\* from the code: an edit that stores the formula with the weight 0.0
EditResetsWeight(rows, original_name, name, formula) ==
    IF original_name # "" /\ original_name # name
    THEN set_formula(delete_formula(rows, original_name), name, formula, 0)
    ELSE set_formula(rows, name, formula, 0)

\* formulas_page, action edit: with a new name the weight of the original is
\* read, the original is deleted and the formula is stored under the new name
\* with that weight; otherwise it is stored again with the weight it has
formulas_page_edit(rows, original_name, name, formula) ==
    IF original_name # "" /\ original_name # name
    THEN set_formula(delete_formula(rows, original_name), name, formula,
                     WeightIn(rows, original_name))
    ELSE set_formula(rows, name, formula, WeightIn(rows, name))

\* formulas_page, action delete
formulas_page_delete(rows, name) == delete_formula(rows, name)

(***************************************************************************)
(* State                                                                   *)
(***************************************************************************)
VARIABLES
    engine,         \* the ScoringEngine in use: the fields set by __init__
    call,           \* the last scoring call and its inputs
    out,            \* what that call returned
    config_rows,    \* the config table: <<key, text>> in rowid order
    formula_rows,   \* the formulas table
    ticker_rows,    \* the tickers table
    yaml_file,      \* the YAML file as the last get_config found it
    ret,            \* the last ConfigManager call and what it returned
    writes,         \* the number of writes made to the store
    job,            \* the run of daily_job: its position and its local variables
    reader          \* a get_config in progress: its position and its local variables

scoring_vars == <<engine, call, out>>

config_vars == <<config_rows, formula_rows, ticker_rows, yaml_file, ret, writes>>

vars ==
    <<engine, call, out, config_rows, formula_rows, ticker_rows, yaml_file, ret, writes,
      job, reader>>

\* the series a call worked on
CallSeries(c) == Downloads[c.shape][c.len]

NoCall == [op |-> "init"]

(***************************************************************************)
(* Scoring: construction and the two entry points                          *)
(***************************************************************************)
ScoringInit ==
    /\ engine = ScoringEngine(EngineConfigs["default"])
    /\ call = NoCall
    /\ out = None

\* a new configuration needs a new engine
Construct ==
    \E c \in ConfigNames :
        /\ engine' = ScoringEngine(EngineConfigs[c])
        /\ call' = NoCall
        /\ out' = None
        /\ UNCHANGED <<config_vars, job, reader>>

\* a variant of the definition below that a property about it must tell apart
\* from the code: an engine that drops its custom formulas once it has scored
ForgetsFormulas(self) == [self EXCEPT !.formulas = EmptyDict]

\* the engine after a scoring call: the score_* methods and the two compute
\* methods read self.weights, self.formula_weights, self.formulas and the caps
\* and assign to none of them, nor to an entry of these dicts
SelfAfterCall(self) == self

\* compute_scores_for_ticker on a download that succeeded
LiveScore ==
    \E ticker \in Tickers, shape \in Shapes, n \in LiveLengths :
        /\ call' = [op |-> "live", ticker |-> ticker, shape |-> shape,
                    len |-> n, date_idx |-> n - 1]
        /\ out' = compute_scores_for_ticker(engine, ticker, TickerInfo[ticker],
                      [ok |-> TRUE, df |-> Downloads[shape][n]])
        /\ engine' = SelfAfterCall(engine)
        /\ UNCHANGED <<config_vars, job, reader>>

\* compute_scores_for_ticker on a download that raised, or that is empty
LiveScoreNoData ==
    \E ticker \in Tickers, ok \in BOOLEAN :
        /\ call' = [op |-> IF ok THEN "empty" ELSE "failed", ticker |-> ticker,
                    shape |-> "flat", len |-> 0, date_idx |-> 0]
        /\ out' = compute_scores_for_ticker(engine, ticker, TickerInfo[ticker],
                      [ok |-> ok, df |-> << >>])
        /\ engine' = SelfAfterCall(engine)
        /\ UNCHANGED <<config_vars, job, reader>>

\* compute_score_at_date(df, date_idx)
ScoreAtDate ==
    \E shape \in Shapes, n \in Lengths :
        \E date_idx \in DateIdxs(n) :
            /\ call' = [op |-> "hist", ticker |-> "", shape |-> shape,
                        len |-> n, date_idx |-> date_idx]
            /\ out' = compute_score_at_date(engine, Downloads[shape][n], date_idx)
            /\ engine' = SelfAfterCall(engine)
            /\ UNCHANGED <<config_vars, job, reader>>

(***************************************************************************)
(* ConfigManager: writes of override values and reads of the configuration *)
(***************************************************************************)
\* the administrator makes at most MaxWrites writes to the store
MaxWrites == 2

StoreKeys == {"data_period", "weights", "weights.rsi14", "alerts.level"}

StoreValues == {Num(5000), Num(3000), Bool(TRUE), Str("730d"), Str("0.5")}

\* the formulas and the tickers written to the store
FormulaNames == {"rsi", "drawdown"}

FormulaTexts == {"1.0"}

FormulaWeights == {5000, 3000}

StoreSymbols == {"AAA", "BBB"}

ConfigInit ==
    /\ config_rows = << >>
    /\ formula_rows = << >>
    /\ ticker_rows = << >>
    /\ yaml_file = "missing"
    /\ ret = [op |-> "init"]
    /\ writes = 0

\* a write of the administrator, counted
Written(op) ==
    /\ writes < MaxWrites
    /\ writes' = writes + 1
    /\ ret' = [op |-> op]

\* set_config_value(key, value)
SetConfigValue ==
    \E key \in StoreKeys, value \in StoreValues :
        /\ Written("set_config_value")
        /\ config_rows' = set_config_value(config_rows, key, value)
        /\ UNCHANGED <<formula_rows, ticker_rows, yaml_file, scoring_vars, job, reader>>

\* set_formula(name, formula, weight)
SetFormula ==
    \E name \in FormulaNames, formula \in FormulaTexts, weight \in FormulaWeights :
        /\ Written("set_formula")
        /\ formula_rows' = set_formula(formula_rows, name, formula, weight)
        /\ UNCHANGED <<config_rows, ticker_rows, yaml_file, scoring_vars, job, reader>>

\* set_formula_weight(name, weight)
SetFormulaWeight ==
    \E name \in FormulaNames, weight \in FormulaWeights :
        /\ Written("set_formula_weight")
        /\ formula_rows' = set_formula_weight(formula_rows, name, weight)
        /\ UNCHANGED <<config_rows, ticker_rows, yaml_file, scoring_vars, job, reader>>

\* delete_formula(name)
DeleteFormula ==
    \E name \in FormulaNames :
        /\ Written("delete_formula")
        /\ formula_rows' = delete_formula(formula_rows, name)
        /\ UNCHANGED <<config_rows, ticker_rows, yaml_file, scoring_vars, job, reader>>

\* add_ticker(symbol)
AddTicker ==
    \E symbol \in StoreSymbols :
        /\ Written("add_ticker")
        /\ ticker_rows' = add_ticker(ticker_rows, symbol)
        /\ UNCHANGED <<config_rows, formula_rows, yaml_file, scoring_vars, job, reader>>

\* remove_ticker(symbol)
RemoveTicker ==
    \E symbol \in StoreSymbols :
        /\ Written("remove_ticker")
        /\ ticker_rows' = remove_ticker(ticker_rows, symbol)
        /\ UNCHANGED <<config_rows, formula_rows, yaml_file, scoring_vars, job, reader>>

\* toggle_ticker(symbol, enabled)
ToggleTicker ==
    \E symbol \in StoreSymbols, enabled \in BOOLEAN :
        /\ Written("toggle_ticker")
        /\ ticker_rows' = toggle_ticker(ticker_rows, symbol, enabled)
        /\ UNCHANGED <<config_rows, formula_rows, yaml_file, scoring_vars, job, reader>>

\* get_config(), with the YAML file as it is found and the store failing at
\* fault
GetConfig ==
    \E file \in YamlFiles, fault \in Faults :
        LET r == get_config(file, config_rows, formula_rows, ticker_rows, fault)
        IN  /\ yaml_file' = file
            /\ ret' = [op |-> "get_config", config |-> r.config, closed |-> r.closed,
                       fault |-> fault]
            /\ UNCHANGED <<config_rows, formula_rows, ticker_rows, writes, scoring_vars, job, reader>>

\* get_config_value(key): a get_config, then the lookup of the key
GetConfigValue ==
    \E key \in StoreKeys, file \in YamlFiles, fault \in Faults :
        LET r == get_config(file, config_rows, formula_rows, ticker_rows, fault)
        IN  /\ yaml_file' = file
            /\ ret' = [op |-> "get_config_value", key |-> key,
                       value |-> get_config_value(r.config, key),
                       closed |-> r.closed, fault |-> fault]
            /\ UNCHANGED <<config_rows, formula_rows, ticker_rows, writes, scoring_vars, job, reader>>

(***************************************************************************)
(* The administrator at the formulas and weights pages                     *)
(***************************************************************************)
\* the names and expressions typed into the forms, and the weight fields
AdminNames == {"rsi", "drawdown", "momentum"}

AdminTexts == {"1.0", "0.5"}

FormFields == {"absent", "1.0", "0.5", "abc"}

\* POST /weights
WeightsPage ==
    \E form \in [AdminNames -> FormFields] :
        LET r == weights_page(formula_rows, form)
        IN  /\ formula_rows' = r.rows
            /\ ret' = [op |-> "weights_page", flash |-> r.flash]
            /\ UNCHANGED <<config_rows, ticker_rows, yaml_file, writes, scoring_vars, job, reader>>

\* POST /formulas with action=add
FormulasPageAdd ==
    \E name \in AdminNames, formula \in AdminTexts :
        /\ formula_rows' = formulas_page_add(formula_rows, name, formula)
        /\ ret' = [op |-> "formulas_page", action |-> "add", name |-> name,
                   original_name |-> ""]
        /\ UNCHANGED <<config_rows, ticker_rows, yaml_file, writes, scoring_vars, job, reader>>

\* POST /formulas with action=edit
FormulasPageEdit ==
    \E original_name \in AdminNames \cup {""}, name \in AdminNames, formula \in AdminTexts :
        /\ formula_rows' = formulas_page_edit(formula_rows, original_name, name, formula)
        /\ ret' = [op |-> "formulas_page", action |-> "edit", name |-> name,
                   original_name |-> original_name]
        /\ UNCHANGED <<config_rows, ticker_rows, yaml_file, writes, scoring_vars, job, reader>>

\* POST /formulas with action=delete
FormulasPageDelete ==
    \E name \in AdminNames :
        /\ formula_rows' = formulas_page_delete(formula_rows, name)
        /\ ret' = [op |-> "formulas_page", action |-> "delete", name |-> name,
                   original_name |-> ""]
        /\ UNCHANGED <<config_rows, ticker_rows, yaml_file, writes, scoring_vars, job, reader>>

(***************************************************************************)
(* get_config statement by statement: each SELECT reads its table as it is *)
(* when it runs, and other connections write between two statements       *)
(***************************************************************************)
NoRead ==
    [ pc |-> "idle", file |-> "missing", config |-> EmptyDict,
      rows |-> << >>, formula_rows |-> << >>, ticker_rows |-> << >> ]

ReadInit == reader = NoRead

\* a variant of the definition below that a property about it must tell apart
\* from the code: a SELECT that gives every row the weight of the first row
SelectWeightOfFirst(rows) ==
    [i \in DOMAIN rows |-> [rows[i] EXCEPT !.weight = rows[1].weight]]

\* cursor.execute("SELECT name, formula, weight FROM formulas") with
\* fetchall(): the rows of the table, each with its own columns
SelectFormulas(rows) == rows

\* load_yaml_config and the defaults
ReadBegin ==
    \E file \in YamlFiles :
        /\ reader.pc \in {"idle", "done"}
        /\ reader' = [NoRead EXCEPT !.pc = "config", !.file = file,
                                    !.config = StaticLayer[file]]
        /\ UNCHANGED <<config_vars, scoring_vars, job>>

\* SELECT key, value FROM config and the loop over its rows; a row that raises
\* ends the read
ReadConfig ==
    /\ reader.pc = "config"
    /\ LET r == ApplyRows(reader.config, config_rows, 1)
       IN  reader' = [reader EXCEPT !.pc = IF r.ok THEN "formulas" ELSE "done",
                                    !.rows = config_rows, !.config = r.config]
    /\ UNCHANGED <<config_vars, scoring_vars, job>>

\* SELECT name, formula, weight FROM formulas
ReadFormulas ==
    /\ reader.pc = "formulas"
    /\ \E rows \in {SelectFormulas(formula_rows)} :
           reader' = [reader EXCEPT !.pc = "tickers", !.formula_rows = rows,
                                    !.config = WithFormulas(reader.config, rows)]
    /\ UNCHANGED <<config_vars, scoring_vars, job>>

\* SELECT symbol FROM tickers WHERE enabled = 1, conn.close() and return
ReadTickers ==
    /\ reader.pc = "tickers"
    /\ reader' = [reader EXCEPT !.pc = "done", !.ticker_rows = ticker_rows,
                                !.config = WithTickers(reader.config, ticker_rows)]
    /\ UNCHANGED <<config_vars, scoring_vars, job>>

(***************************************************************************)
(* daily_job (bot_daily_score_v2.py): one run resolves the configuration,  *)
(* constructs an engine, scores the tickers one after the other and        *)
(* reports the results.  The administrator writes to the store meanwhile.  *)
(***************************************************************************)
NoJob ==
    [ pc |-> "idle", config |-> EmptyDict, scoring_engine |-> ScoringEngine(EmptyDict),
      tickers |-> << >>, i |-> 0, results |-> << >>, ranked |-> << >> ]

JobInit == job = NoJob

\* config.get("tickers", [])
TickersOf(config) ==
    IF <<"tickers">> \in DOMAIN config THEN config[<<"tickers">>].v ELSE << >>

\* the local variables of a run after get_config and ScoringEngine(config); a
\* run without tickers returns at once
StartRun(config) ==
    [ pc |-> IF TickersOf(config) = << >> THEN "done" ELSE "loop",
      config |-> config, scoring_engine |-> ScoringEngine(config),
      tickers |-> TickersOf(config), i |-> 1, results |-> << >>, ranked |-> << >> ]

\* variants of the two definitions below that a property about them must
\* tell apart from the code: an engine constructed anew for every ticker, and
\* a loop that an exception ends
EngineOfStore(run, config_now) == ScoringEngine(config_now)

AbortOnError(run, r) ==
    IF r.kind = "result"
    THEN [run EXCEPT !.i = @ + 1, !.results = Append(@, r)]
    ELSE [run EXCEPT !.i = Len(run.tickers) + 1]

\* the engine a ticker of the run is scored with: the one constructed at the
\* start of the run, whatever configuration the store gives now
EngineOfRun(run, config_now) == run.scoring_engine

\* the run after compute_scores_for_ticker gave r for its ticker: a result is
\* appended; None is skipped; an exception is caught and logged
AfterTicker(run, r) ==
    [run EXCEPT !.i = @ + 1,
                !.results = IF r.kind = "result" THEN Append(@, r) ELSE @]

\* results.sort(key=score, reverse=True): r goes behind the results whose score
\* is not below its own
SortInsert(sorted, r) ==
    LET before == Cardinality({k \in DOMAIN sorted : sorted[k].score >= r.score})
    IN  SubSeq(sorted, 1, before) \o <<r>> \o SubSeq(sorted, before + 1, Len(sorted))

RECURSIVE SortByScore(_)
SortByScore(results) ==
    IF results = << >> THEN << >>
    ELSE SortInsert(SortByScore(SubSeq(results, 1, Len(results) - 1)),
                    results[Len(results)])

\* daily_job up to the loop: get_config, ScoringEngine(config), the tickers
JobStart ==
    \E file \in YamlFiles, fault \in Faults :
        LET r == get_config(file, config_rows, formula_rows, ticker_rows, fault)
        IN  /\ job.pc # "loop"
            /\ job' = StartRun(r.config)
            /\ yaml_file' = file
            /\ ret' = [op |-> "get_config", config |-> r.config, closed |-> r.closed,
                       fault |-> fault]
            /\ UNCHANGED <<config_rows, formula_rows, ticker_rows, writes, scoring_vars, reader>>

\* one turn of the loop over the tickers
JobTicker ==
    /\ job.pc = "loop"
    /\ job.i <= Len(job.tickers)
    /\ LET t   == job.tickers[job.i]
           now == get_config(yaml_file, config_rows, formula_rows, ticker_rows, "none")
       IN  \E r \in {compute_scores_for_ticker(EngineOfRun(job, now.config), t,
                                                TickerInfo[t], Market[t])} :
               job' = AfterTicker(job, r)
    /\ UNCHANGED <<config_vars, scoring_vars, reader>>

\* daily_job after the loop: the results are sorted and reported
JobFinish ==
    /\ job.pc = "loop"
    /\ job.i > Len(job.tickers)
    /\ job' = [job EXCEPT !.pc = "done", !.ranked = SortByScore(job.results)]
    /\ UNCHANGED <<config_vars, scoring_vars, reader>>

Init == ScoringInit /\ ConfigInit /\ JobInit /\ ReadInit

Next == Construct \/ LiveScore \/ LiveScoreNoData \/ ScoreAtDate

Spec == Init /\ [][Next]_vars

NextConfig ==
    \/ SetConfigValue \/ SetFormula \/ SetFormulaWeight \/ DeleteFormula
    \/ AddTicker \/ RemoveTicker \/ ToggleTicker
    \/ GetConfig \/ GetConfigValue

SpecConfig == Init /\ [][NextConfig]_vars

\* the store writes of the administrator
Write ==
    \/ SetConfigValue \/ SetFormula \/ SetFormulaWeight \/ DeleteFormula
    \/ AddTicker \/ RemoveTicker \/ ToggleTicker

NextJob == JobStart \/ JobTicker \/ JobFinish \/ Write

SpecJob == Init /\ [][NextJob]_vars

\* a get_config while the administrator writes to the store
NextRead == ReadBegin \/ ReadConfig \/ ReadFormulas \/ ReadTickers \/ Write

SpecRead == Init /\ [][NextRead]_vars

\* the administrator at the formulas and weights pages, one request at a time
NextAdmin == WeightsPage \/ FormulasPageAdd \/ FormulasPageEdit \/ FormulasPageDelete

SpecAdmin == Init /\ [][NextAdmin]_vars

\* the daily job while the administrator edits the ticker list.  A run is
\* sequential code and every call it makes returns (the fetch of a ticker
\* ends with data, without data or with an exception): its next step is taken.
NextJobTickers == JobStart \/ JobTicker \/ JobFinish \/ AddTicker \/ RemoveTicker \/ ToggleTicker

SpecJobFair == Init /\ [][NextJobTickers]_vars /\ WF_vars(JobTicker) /\ WF_vars(JobFinish)

(***************************************************************************)
(* Properties of the scoring calls                                         *)
(***************************************************************************)
\* the expression names, the weight keys (WeightKeys) and the names of the
\* reported components of the six terms, in the order of the composite
FormulaKeys == <<"drawdown", "rsi", "dist_ma50", "momentum", "trend_ma200", "volatility">>

ComponentKeys == <<"drawdown", "rsi", "ma50", "momentum", "trend", "volatility">>

LiveResult == call.op = "live" /\ out.kind = "result"

HistResult == call.op = "hist" /\ out.kind = "result"

\* the live call of the current state, made on another engine
LiveOn(self) ==
    compute_scores_for_ticker(self, call.ticker, TickerInfo[call.ticker],
        [ok |-> TRUE, df |-> CallSeries(call)])

\* C1: every score a call returns is within [0, 100] and every component it
\* reports is within [0, 1], whatever the weights, caps and formulas are
C1_ScoreAndComponentsInRange ==
    /\ LiveResult =>
          /\ out.score \in 0 .. 1000
          /\ \A k \in DOMAIN out.components : out.components[k] \in 0 .. 1000
    /\ HistResult =>
          /\ out.score \in 0 .. 1000
          /\ \A f \in {"score_drawdown", "score_rsi", "score_ma50", "score_momentum",
                       "score_trend", "score_volatility"} : out[f] \in 0 .. 1000

\* expressions whose evaluation raises on every input
AlwaysFailing == {"undefined_fn(rsi)", "1 / 0", "1.0 - (close / ma50", "log(close)"}

FormulaFails(self, i) ==
    /\ FormulaKeys[i] \in DOMAIN self.formulas
    /\ self.formulas[FormulaKeys[i]].v \in AlwaysFailing

\* C2: a formula whose evaluation fails contributes a component of 0.0 and the
\* call still returns its result; with a constant 1.0 formula and a failing one
\* weighted 0.5 each the score is 50.0
C2_FailedFormulaScoresZero ==
    LiveResult =>
        /\ \A i \in 1 .. 6 :
              FormulaFails(engine, i) => out.components[ComponentKeys[i]] = 0
        /\ engine = ScoringEngine(EngineConfigs["throws"]) => out.score = 500

\* the engine with every configured weight multiplied by num / den
ScaleWeights(self, num, den) ==
    [self EXCEPT
        !.weights = [k \in DOMAIN self.weights |->
                        Num((self.weights[k].v * num) \div den)],
        !.formula_weights = [k \in DOMAIN self.formula_weights |->
                                Num((self.formula_weights[k].v * num) \div den)]]

AllWeightsConfigured(self) ==
    \A i \in 1 .. 6 :
        WeightKeys[i] \in DOMAIN self.formula_weights \cup DOMAIN self.weights

\* C3: the composite is normalised by the sum of the weights, so the score of a
\* call is the score the same call gets with every weight halved
C3_ScalingInvariant ==
    (LiveResult /\ AllWeightsConfigured(engine)
        /\ \E i \in 1 .. 6 : WeightOf(engine, WeightKeys[i]).v > 0)
    => LiveOn(ScaleWeights(engine, 1, 2)).score = out.score

NoPositiveWeight(self) ==
    /\ \A k \in DOMAIN self.formula_weights : self.formula_weights[k].v <= 0
    /\ \A k \in DOMAIN self.weights : self.weights[k].v <= 0

\* C4: when no configured weight is strictly positive, and also when no weight
\* is configured at all, the score is 0
C4_NoPositiveWeightScoresZero ==
    (LiveResult /\ NoPositiveWeight(engine)) => out.score = 0

\* the engine with the expression of a formula replaced
WithFormula(self, name, text) ==
    [self EXCEPT !.formulas = Merge(Pair(name, Str(text)), self.formulas)]

\* C5: a term whose weight is zero or negative is not reported among the
\* components, and its expression changes nothing of the result
C5_InactiveFormulaIgnored ==
    LiveResult =>
        \A i \in 1 .. 6 :
            WeightOf(engine, WeightKeys[i]).v <= 0 =>
                /\ ComponentKeys[i] \notin DOMAIN out.components
                /\ \A text \in {"2.0", "-1.0"} :
                      LiveOn(WithFormula(engine, FormulaKeys[i], text)) = out

\* C6: a name that is in formulas and in formula_weights is a key of the
\* reported components, and the weight found in formula_weights under the name
\* of a component is the weight the composite gave to that component
C6_ComponentsKeyedByFormulaName ==
    LiveResult =>
        /\ \A name \in DOMAIN engine.formulas \cap DOMAIN engine.formula_weights :
              name \in DOMAIN out.components
        /\ \A i \in 1 .. 6 :
              ComponentKeys[i] \in DOMAIN engine.formula_weights =>
                  WeightOf(engine, WeightKeys[i])
                      = engine.formula_weights[ComponentKeys[i]]

\* C7: a historical score at an index below 199 is no result, and at index 199
\* of a series of at least 200 rows it is a result
C7_WarmUp ==
    call.op = "hist" =>
        /\ call.date_idx < MinHistory - 1 => out = None
        /\ (call.date_idx = MinHistory - 1 /\ call.len >= MinHistory)
              => out.kind = "result"

C7_Witness ==
    /\ call.op = "hist"
    /\ call.date_idx = MinHistory - 1
    /\ call.len > MinHistory
    /\ out.kind = "result"

\* the live score of the first date_idx + 1 rows of the series of the call
LiveOnPrefix ==
    compute_scores_for_ticker(engine, "AAA", TickerInfo["AAA"],
        [ok |-> TRUE, df |-> SubSeq(CallSeries(call), 1, call.date_idx + 1)])

\* C8: at an index of 199 or more the historical score is the live score of
\* the prefix of the series up to that index: the same score, indicators and
\* component scores
C8_HistoricalEqualsLive ==
    (call.op = "hist" /\ call.date_idx >= MinHistory - 1) =>
        /\ out.kind = LiveOnPrefix.kind
        /\ out.kind = "result" =>
              /\ out.score = LiveOnPrefix.score
              /\ out.close = LiveOnPrefix.close
              /\ out.ma50 = LiveOnPrefix.ma50
              /\ out.ma200 = LiveOnPrefix.ma200
              /\ out.rsi14 = LiveOnPrefix.rsi14
              /\ out.drawdown90_pct = LiveOnPrefix.drawdown90_pct
              /\ out.vol20_pct = LiveOnPrefix.vol20_pct
              /\ out.momentum30_pct = LiveOnPrefix.momentum30_pct
              /\ out.score_drawdown = LiveOnPrefix.components.drawdown
              /\ out.score_rsi = LiveOnPrefix.components.rsi
              /\ out.score_ma50 = LiveOnPrefix.components.ma50
              /\ out.score_momentum = LiveOnPrefix.components.momentum
              /\ out.score_trend = LiveOnPrefix.components.trend
              /\ out.score_volatility = LiveOnPrefix.components.volatility

\* a historical score at an index before the end of a series whose later rows
\* differ from the prefix
C8_Witness ==
    /\ call.op = "hist"
    /\ call.shape = "rally"
    /\ call.date_idx = MinHistory - 1
    /\ call.len > MinHistory
    /\ out.kind = "result"
    /\ out.close # CallSeries(call)[call.len]

(***************************************************************************)
(* Properties of the resolved configuration                                *)
(***************************************************************************)
GotConfig == ret.op = "get_config"

\* the read of the store was not cut short by a failure of the store
ReadStore == GotConfig /\ ret.fault = "none"

\* the scalar settings that have a hardcoded default
Settings ==
    {<<"data_period">>, <<"drawdown_cap">>, <<"volatility_cap">>}
        \cup {<<"weights", WeightKeys[i]>> : i \in 1 .. 6}

\* the value the store holds in a row
Stored(row) == IF JsonLoads(row[2]).ok THEN JsonLoads(row[2]).v ELSE Str(row[2])

\* the rows of the store whose key addresses the setting at path
RowsOf(path) == {i \in DOMAIN config_rows : KeyParts(config_rows[i][1]) = path}

\* the store replaces, as a whole, the mapping the setting at path is in
Replaced(path) ==
    \E i \in DOMAIN config_rows :
        /\ Len(KeyParts(config_rows[i][1])) < Len(path)
        /\ IsPrefix(KeyParts(config_rows[i][1]), path)

\* C9: when the store is read, every scalar setting of the resolved
\* configuration has the value of the store if the store has its key, else the
\* value of the static document if the document has it, else the hardcoded
\* default (a setting whose mapping the store replaces as a whole is left out)
C9_Layering ==
    ReadStore =>
        \A s \in Settings :
            \/ Replaced(s)
            \/ /\ s \in DOMAIN ret.config
               /\ ret.config[s] =
                     IF RowsOf(s) # {}
                     THEN Stored(config_rows[CHOOSE i \in RowsOf(s) : TRUE])
                     ELSE IF s \in DOMAIN load_yaml_config(yaml_file)
                     THEN load_yaml_config(yaml_file)[s]
                     ELSE WithDefaults(EmptyDict)[s]

\* the configuration resolved without the last row of the store
WithoutLastRow ==
    get_config(yaml_file, SubSeq(config_rows, 1, Len(config_rows) - 1),
               formula_rows, ticker_rows, ret.fault).config

LastOf(rows) == rows[Len(rows)]

\* C10: a dotted-path override sets the leaf it addresses, and every other
\* key of the configuration is as it is without that override
C10_DottedOverrideSetsOnlyLeaf ==
    (ReadStore /\ config_rows # << >> /\ Len(KeyParts(LastOf(config_rows)[1])) > 1)
    => LET path == KeyParts(LastOf(config_rows)[1])
       IN  /\ path \in DOMAIN ret.config
           /\ ret.config[path] = Stored(LastOf(config_rows))
           /\ \A p \in (DOMAIN ret.config \cup DOMAIN WithoutLastRow) \ {path} :
                 /\ p \in DOMAIN ret.config
                 /\ p \in DOMAIN WithoutLastRow
                 /\ ret.config[p] = WithoutLastRow[p]

\* the static document the last get_config read
StaticDocument == load_yaml_config(yaml_file)

StoredNames == {formula_rows[i].name : i \in DOMAIN formula_rows}

\* C11: every formula of the store is in formulas and formula_weights of the
\* resolved configuration with its stored expression and weight, and an entry of
\* the static document under a name the store does not have is still there
C11_StoredFormulasMerged ==
    ReadStore =>
        /\ \A i \in DOMAIN formula_rows :
              /\ <<"formulas", formula_rows[i].name>> \in DOMAIN ret.config
              /\ ret.config[<<"formulas", formula_rows[i].name>>]
                    = Str(formula_rows[i].formula)
              /\ <<"formula_weights", formula_rows[i].name>> \in DOMAIN ret.config
              /\ ret.config[<<"formula_weights", formula_rows[i].name>>]
                    = Num(formula_rows[i].weight)
        /\ \A p \in DOMAIN StaticDocument :
              (p[1] \in {"formulas", "formula_weights"} /\ p[2] \notin StoredNames)
              => (p \in DOMAIN ret.config /\ ret.config[p] = StaticDocument[p])

\* C12: the resolved ticker list is the list of the enabled tickers of the
\* store when there is one, and the list of the static document otherwise
C12_TickerListResolved ==
    ReadStore =>
        IF EnabledSymbols(ticker_rows) # << >>
        THEN /\ <<"tickers">> \in DOMAIN ret.config
             /\ ret.config[<<"tickers">>] = List(EnabledSymbols(ticker_rows))
        ELSE IF <<"tickers">> \in DOMAIN StaticDocument
        THEN /\ <<"tickers">> \in DOMAIN ret.config
             /\ ret.config[<<"tickers">>] = StaticDocument[<<"tickers">>]
        ELSE <<"tickers">> \notin DOMAIN ret.config

\* C13: a get_config during which the store fails returns the static document
\* with the defaults and nothing of the store
C13_FailedReadFallsBack ==
    (GotConfig /\ ret.fault # "none") => ret.config = WithDefaults(StaticDocument)

(***************************************************************************)
(* The daily job                                                           *)
(***************************************************************************)
\* what the store resolves to now, read without a fault
StoreNow == get_config(yaml_file, config_rows, formula_rows, ticker_rows, "none").config

\* what compute_scores_for_ticker gives for the k-th ticker of a run
Scored(run, k) ==
    compute_scores_for_ticker(ScoringEngine(run.config), run.tickers[k],
                              TickerInfo[run.tickers[k]], Market[run.tickers[k]])

\* the results of the first n tickers of a run, in list order
RECURSIVE ResultsUpTo(_, _)
ResultsUpTo(run, n) ==
    IF n = 0 THEN << >>
    ELSE IF Scored(run, n).kind = "result"
         THEN Append(ResultsUpTo(run, n - 1), Scored(run, n))
         ELSE ResultsUpTo(run, n - 1)

\* C14: a run of the daily job uses one configuration snapshot.  While the
\* run is in its loop no step, a store write included, changes its
\* configuration, its engine or its ticker list; the engine is the one
\* constructed from the snapshot, and every ticker is scored with it; and a
\* run that starts resolves its snapshot from the store as it is then.
C14_RunUsesOneSnapshot ==
    [][ /\ job.pc = "loop" =>
            /\ job'.config = job.config
            /\ job'.tickers = job.tickers /\ job.tickers = TickersOf(job.config)
            /\ job'.scoring_engine = job.scoring_engine
            /\ job.scoring_engine = ScoringEngine(job.config)
            /\ job'.i = job.i + 1 => job'.results = ResultsUpTo(job, job.i)
        /\ (job.pc # "loop" /\ ret'.op = "get_config") =>
            job' = StartRun(get_config(yaml_file', config_rows', formula_rows',
                                       ticker_rows', ret'.fault).config)
      ]_vars

\* a run past its first ticker, the last operation on the store a write, and
\* the store resolving to another engine and another ticker list than the run's
C14_Witness ==
    /\ job.pc = "loop" /\ job.i > 1
    /\ ret.op \notin {"init", "get_config"}
    /\ ScoringEngine(StoreNow) # job.scoring_engine
    /\ TickersOf(StoreNow) # job.tickers

\* C15: every ticker of the list is attempted once, in list order, and the
\* job ends.  A step of the loop moves to the next ticker; the results are at
\* every moment those of the tickers attempted so far that gave one, so a
\* ticker without data or whose scoring raises is skipped and the later ones
\* are still scored; the finished run reports exactly these results, by
\* descending score; and a run in its loop reaches its end.
C15_EveryTickerAttempted ==
    /\ [][ (job.pc = "loop" /\ job' # job) =>
              \/ job.i <= Len(job.tickers) /\ job'.pc = "loop" /\ job'.i = job.i + 1
              \/ job.i = Len(job.tickers) + 1 /\ job'.pc = "done" /\ job'.i = job.i
         ]_vars
    /\ [](job.pc = "loop" =>
              /\ job.i \in 1..(Len(job.tickers) + 1)
              /\ job.results = ResultsUpTo(job, job.i - 1))
    /\ [](job.pc = "done" /\ job.tickers # << >> =>
              /\ job.i = Len(job.tickers) + 1
              /\ job.results = ResultsUpTo(job, Len(job.tickers))
              /\ Len(job.ranked) = Len(job.results)
              /\ \A k \in DOMAIN job.results :
                     \E m \in DOMAIN job.ranked : job.ranked[m] = job.results[k]
              /\ \A k \in 1..(Len(job.ranked) - 1) :
                     job.ranked[k].score >= job.ranked[k + 1].score)
    /\ ((job.pc = "loop") ~> (job.pc = "done"))

\* a finished run over five tickers: after the first, one failed in scoring,
\* one in the fetch and one had no data, and the last was still scored; the
\* two results are reported, the higher score first
C15_Witness ==
    /\ job.pc = "done" /\ Len(job.tickers) = 5
    /\ Scored(job, 1).kind = "result"
    /\ Scored(job, 2).kind = "raise"
    /\ Scored(job, 3).kind = "none" /\ ~Market[job.tickers[3]].ok
    /\ Scored(job, 4).kind = "none" /\ Market[job.tickers[4]].ok
    /\ Scored(job, 5).kind = "result"
    /\ job.results = <<Scored(job, 1), Scored(job, 5)>>
    /\ job.ranked = <<Scored(job, 5), Scored(job, 1)>>
    /\ Scored(job, 5).score > Scored(job, 1).score

(***************************************************************************)
(* The engine across calls                                                 *)
(***************************************************************************)
\* what the call c returns when self makes it
Replayed(self, c) ==
    CASE c.op = "live" ->
            compute_scores_for_ticker(self, c.ticker, TickerInfo[c.ticker],
                                      [ok |-> TRUE, df |-> CallSeries(c)])
      [] c.op \in {"empty", "failed"} ->
            compute_scores_for_ticker(self, c.ticker, TickerInfo[c.ticker],
                                      [ok |-> c.op = "empty", df |-> << >>])
      [] c.op = "hist" -> compute_score_at_date(self, CallSeries(c), c.date_idx)
      [] OTHER -> None

\* C16: a scoring call leaves the engine unchanged.  After any sequence of
\* live and historical calls the weights, formula weights, formulas and caps
\* of the engine are those its constructor read from its configuration, and
\* what the last call returned is what an engine just constructed from that
\* configuration returns on the same input.
C16_CallLeavesEngineUnchanged ==
    /\ engine = ScoringEngine(engine.config)
    /\ out = Replayed(ScoringEngine(engine.config), call)

\* a result of an engine with custom formulas and formula weights
C16_Witness ==
    /\ call.op \in {"live", "hist"} /\ out.kind = "result"
    /\ engine.formulas # EmptyDict /\ engine.formula_weights # EmptyDict

(***************************************************************************)
(* The values the scoring functions are given                              *)
(***************************************************************************)
\* the frame the last call computed its indicator columns on
ScoredFrame ==
    IF call.op = "hist" THEN Prefix(CallSeries(call), call.date_idx) ELSE CallSeries(call)

\* the last call came to its scoring functions
WasScored ==
    \/ call.op = "live"
    \/ call.op = "hist" /\ ~InsufficientHistory(ScoredFrame)

ValueNames == {"close", "ma50", "ma200", "rsi14", "drawdown90", "vol20", "momentum30"}

C20_RsiInRange ==
    (WasScored /\ out.kind = "result") =>
        LET raw == Indicators[ScoredFrame].RSI14
            rsi == LatestValues(Indicators[ScoredFrame]).rsi14
        IN  /\ \A k \in DOMAIN ScoredFrame : ScoredFrame[k] > 0
            /\ rsi \in 0 .. (100 * S)
            /\ out.rsi14 \in 0 .. (100 * 100)
            /\ out.rsi14 = RoundTo(rsi, 100)
            /\ IsNaN(raw) => (rsi = 50 * S /\ out.rsi14 = 50 * 100)
            /\ ~IsNaN(raw) => rsi = raw

\* a result whose RSI is computed from gains and losses: strictly between
\* 0 and 100 and not the fallback
C20_Witness ==
    /\ WasScored /\ out.kind = "result"
    /\ ~IsNaN(Indicators[ScoredFrame].RSI14)
    /\ out.rsi14 \in 1 .. (100 * 100 - 1)
    /\ out.rsi14 # 50 * 100

(***************************************************************************)
(* The namespace of a formula                                              *)
(***************************************************************************)
\* the names the specification documents for every formula: the variables
\* with their values for the call, and the functions
DocumentedFns == {"min", "max", "abs", "exp", "log", "sqrt"}

DocumentedVars(self, v) ==
    Merge([ close |-> v.close, ma50 |-> v.ma50, ma200 |-> v.ma200,
            rsi |-> v.rsi14, rsi14 |-> v.rsi14,
            drawdown |-> v.drawdown90, drawdown90 |-> v.drawdown90,
            vol20 |-> v.vol20, volatility |-> v.vol20,
            momentum |-> v.momentum30, momentum30 |-> v.momentum30 ],
          Merge(IF IsNum(self.drawdown_cap)
                THEN [cap |-> self.drawdown_cap.v, drawdown_cap |-> self.drawdown_cap.v]
                ELSE EmptyDict,
                IF IsNum(self.volatility_cap)
                THEN Pair("volatility_cap", self.volatility_cap.v)
                ELSE EmptyDict))

DocumentedNames ==
    DocumentedFns \cup {"close", "ma50", "ma200", "rsi", "rsi14", "drawdown", "drawdown90",
                        "vol20", "volatility", "momentum", "momentum30", "cap",
                        "drawdown_cap", "volatility_cap"}

\* the names an expression refers to
RECURSIVE NamesOf(_)
NamesOf(e) ==
    CASE e.op = "var" -> {e.name}
      [] e.op = "bin" -> NamesOf(e.l) \cup NamesOf(e.r)
      [] e.op = "call" -> {e.fn} \cup UNION {NamesOf(e.args[k]) : k \in DOMAIN e.args}
      [] OTHER -> {}

\* the custom formulas of the engine of the last call: their positions among
\* the six terms
CustomFormulas ==
    {i \in 1 .. 6 : /\ FormulaKeys[i] \in DOMAIN engine.formulas
                    /\ engine.formulas[FormulaKeys[i]].k = "str"}

ExprOf(i) == ParseExpr(engine.formulas[FormulaKeys[i]].v)

\* the values the last live call gave to its scoring functions
LiveValues == LatestValues(Indicators[ScoredFrame])

\* C18: every formula is evaluated with the full documented namespace.  In a
\* live result, the component of a custom formula whose expression has a
\* value in the documented namespace (every variable under each of its names,
\* both caps, the documented functions) is that value.
C18_FullNamespace ==
    LiveResult =>
        \A i \in CustomFormulas :
            LET full == EvalExpr(ExprOf(i), DocumentedVars(engine, LiveValues),
                                 DocumentedFns)
            IN  full.ok => out.components[ComponentKeys[i]] = Round(full.v, 10)

\* what the six default formulas give for the values v
DefaultScores(self, v) ==
    << score_drawdown_default(self, v.drawdown90),
       score_rsi_default(v.rsi14),
       score_dist_ma50_default(v.close, v.ma50),
       score_momentum_default(v.momentum30),
       score_trend_ma200_default(v.close, v.ma200),
       score_volatility_default(self, v.vol20) >>

\* C19: an expression can reach the documented names only.  In a live result,
\* a custom formula whose expression names anything else has failed to
\* evaluate: its component is 0.0 or the value of the default formula, which
\* are the two outcomes of a failed formula.
C19_OnlyDocumentedNames ==
    LiveResult =>
        \A i \in CustomFormulas :
            ~(NamesOf(ExprOf(i)) \subseteq DocumentedNames) =>
                out.components[ComponentKeys[i]]
                    \in {0, Round(DefaultScores(engine, LiveValues)[i].v, 10)}

(***************************************************************************)
(* The flat series                                                         *)
(***************************************************************************)
\* the engine of the last call has the default weights and caps and no custom
\* formula
DefaultEngine ==
    /\ \A i \in 1 .. 6 : WeightOf(engine, WeightKeys[i]) = Num(HardcodedWeight[WeightKeys[i]])
    /\ engine.drawdown_cap = Num(DefaultDrawdownCap)
    /\ engine.volatility_cap = Num(DefaultVolatilityCap)
    /\ engine.formulas = EmptyDict

FlatCall == call.op = "live" /\ call.shape = "flat"

\* C21: a live score of a constant close has vol20 = 0, momentum30 = 0,
\* drawdown90 = 0 and rsi14 = 50.0; with the default weights, caps and formulas
\* its components are 0, 0.5, 0, 0.5, 0.3 and 1.0 and its score is 28.0, on
\* every call.
C21_FlatSeriesScore ==
    FlatCall =>
        /\ out.kind = "result" =>
               /\ out.vol20_pct = 0 /\ out.momentum30_pct = 0 /\ out.drawdown90_pct = 0
               /\ out.rsi14 = 50 * 100
        /\ DefaultEngine =>
               /\ out.kind = "result"
               /\ out.components = [drawdown |-> 0, rsi |-> 500, ma50 |-> 0,
                                    momentum |-> 500, trend |-> 300, volatility |-> 1000]
               /\ out.score = 280

\* the scenario: 300 days of a constant close, scored by the default engine
C21_Witness ==
    /\ FlatCall /\ call.len = 300 /\ DefaultEngine
    /\ out.kind = "result" /\ out.score = 280

(***************************************************************************)
(* Values of the store that are not JSON                                   *)
(***************************************************************************)
\* the last row of the store holds a text that json.loads rejects
LastRowIsRaw == config_rows # << >> /\ ~JsonLoads(LastOf(config_rows)[2]).ok

\* C22: a value of the store that cannot be deserialized is read as its raw
\* string at the position its key addresses, for a flat key and for a dotted
\* key alike, and every key outside that position is as it is without the row
C22_RawStringAtItsKey ==
    (ReadStore /\ LastRowIsRaw)
    => LET path == KeyParts(LastOf(config_rows)[1])
       IN  /\ path \in DOMAIN ret.config
           /\ ret.config[path] = Str(LastOf(config_rows)[2])
           /\ \A p \in (DOMAIN ret.config \cup DOMAIN WithoutLastRow) :
                 ~IsPrefix(path, p) =>
                     /\ p \in DOMAIN ret.config
                     /\ p \in DOMAIN WithoutLastRow
                     /\ ret.config[p] = WithoutLastRow[p]

(***************************************************************************)
(* Invalid values                                                          *)
(***************************************************************************)
\* a value scoring can multiply and divide by (a Python bool is an int)
IsNumber(x) == x.k \in {"num", "bool"}

\* the weights and the caps of a configuration are numbers: weights is a
\* mapping of numbers, and each cap is a number
NumericWeightsAndCaps(config) ==
    /\ <<"weights">> \notin DOMAIN config
    /\ \A p \in DOMAIN config :
           (p[1] = "weights" \/ p \in {<<"drawdown_cap">>, <<"volatility_cap">>})
               => IsNumber(config[p])

\* C23: a weight or cap that is not a number is rejected when it is written,
\* so every configuration get_config returns has numbers for its weights and
\* its caps
C23_NoInvalidValueStored ==
    GotConfig => NumericWeightsAndCaps(ret.config)

(***************************************************************************)
(* Connections                                                             *)
(***************************************************************************)
\* C25: an operation of the store closes the connection it opened before it
\* returns: after a get_config, whatever happened during it, its connection
\* is closed
C25_ConnectionClosed ==
    GotConfig => ret.closed

(***************************************************************************)
(* The display name                                                        *)
(***************************************************************************)
\* the last live call, had the name of its ticker been resolved
WithResolvedName ==
    compute_scores_for_ticker(engine, call.ticker, [ok |-> TRUE, name |-> "Some Fund"],
        [ok |-> call.op # "failed",
         df |-> IF call.op = "live" THEN CallSeries(call) ELSE << >>])

NameNotResolved == ~TickerInfo[call.ticker].ok \/ TickerInfo[call.ticker].name = ""

\* C26: a live call whose display name is not resolved ends as it would with
\* a resolved name: a result when that one is a result, with the ticker symbol
\* as product_name and the same score, components and indicators
C26_NameIsBestEffort ==
    (call.op \in {"live", "empty", "failed"} /\ NameNotResolved)
    => /\ out.kind = WithResolvedName.kind
       /\ out.kind = "result" =>
              /\ out.product_name = call.ticker
              /\ out = [WithResolvedName EXCEPT !.product_name = call.ticker]

\* a fund whose name lookup raises is scored
C26_Witness ==
    /\ LiveResult /\ ~TickerInfo[call.ticker].ok
    /\ out.product_name = call.ticker /\ out.score > 0

(***************************************************************************)
(* Round trip of a value through the store                                 *)
(***************************************************************************)
\* the text set_config_value stores for a value
TextOf(value) == IF value.k = "str" THEN value.v ELSE JsonDumps(value)

\* the values whose write leaves the row the store has for key
WrittenAs(key) ==
    {v \in StoreValues :
        \E i \in DOMAIN config_rows : config_rows[i] = <<key, TextOf(v)>>}

\* C27: once set_config_value(k, v) has stored v and nothing has been written
\* since, get_config_value(k) on a store that can be read gives v, with its
\* type, for a flat and for a dotted key
C27_RoundTrip ==
    (ret.op = "get_config_value" /\ ret.fault = "none")
    => \A v \in WrittenAs(ret.key) : ret.value = v

(***************************************************************************)
(* A row that cannot be applied                                            *)
(***************************************************************************)
\* the rows applied one after the other, a row that raises being left out
RECURSIVE ApplyEachRow(_, _, _)
ApplyEachRow(config, rows, i) ==
    IF i > Len(rows) THEN config
    ELSE ApplyEachRow(ApplyRow(config, rows[i][1], rows[i][2]).config, rows, i + 1)

\* C28: when the store is read, a row that cannot be applied changes nothing
\* but its own key: the configuration returned has every other row, the
\* formulas with their weights and the enabled tickers of the store
C28_BadRowAffectsOnlyItself ==
    ReadStore =>
        ret.config = WithTickers(WithFormulas(
                         ApplyEachRow(StaticLayer[yaml_file], config_rows, 1),
                         formula_rows), ticker_rows)

(***************************************************************************)
(* Properties of the admin pages                                           *)
(***************************************************************************)
\* the stored weights sum to 1.0 within 0.01
SumsToOne(rows) == Abs(TotalWeight(rows, 1) - S) <= 100

\* the stored weights of the formulas, by name
StoredWeights(rows) == [n \in NamesIn(rows) |-> WeightIn(rows, n)]

\* C29: an accepted weights submission leaves the stored weights with a sum of
\* 1.0 within 0.01, every later request of the formulas page (add, edit,
\* delete) and of the weights page keeps that sum, and a submission that is
\* not accepted changes no stored weight
C29_WeightsSumToOne ==
    [][ /\ (ret'.op = "weights_page" /\ ret'.flash = "success")
            => SumsToOne(formula_rows')
        /\ (ret'.op = "weights_page" /\ ret'.flash = "error")
            => StoredWeights(formula_rows') = StoredWeights(formula_rows)
        /\ (ret'.op \in {"weights_page", "formulas_page"} /\ SumsToOne(formula_rows))
            => SumsToOne(formula_rows') ]_vars

\* the formula an edit request names as the original
EditedName(r) == IF r.original_name = "" THEN r.name ELSE r.original_name

RowOf(rows, name) == CHOOSE r \in {rows[i] : i \in DOMAIN rows} : r.name = name

RowSet(rows) == {rows[i] : i \in DOMAIN rows}

\* the rows a write stores in full
WholeConfigRows == {<<key, TextOf(v)>> : key \in StoreKeys, v \in StoreValues}

WholeFormulaRows ==
    [name : FormulaNames, formula : FormulaTexts, weight : FormulaWeights]

WholeTickerRows == [symbol : StoreSymbols, enabled : BOOLEAN]

\* C24: whatever the writes between the statements of a get_config are, every
\* row a statement of the read takes is a row of its table as it is at that
\* instant, every row taken is one that a write stored in full, with one row
\* for a key, and the configuration returned is made of the rows taken and of
\* the static values
C24_ReadsSeeWholeValues ==
    /\ [][ /\ reader'.rows # reader.rows
               => RowSet(reader'.rows) \subseteq RowSet(config_rows)
           /\ reader'.formula_rows # reader.formula_rows
               => RowSet(reader'.formula_rows) \subseteq RowSet(formula_rows)
           /\ reader'.ticker_rows # reader.ticker_rows
               => RowSet(reader'.ticker_rows) \subseteq RowSet(ticker_rows) ]_vars
    /\ [](/\ RowSet(reader.rows) \subseteq WholeConfigRows
          /\ RowSet(reader.formula_rows) \subseteq WholeFormulaRows
          /\ RowSet(reader.ticker_rows) \subseteq WholeTickerRows
          /\ \A i, j \in DOMAIN reader.rows :
                 reader.rows[i][1] = reader.rows[j][1] => i = j
          /\ \A i, j \in DOMAIN reader.formula_rows :
                 reader.formula_rows[i].name = reader.formula_rows[j].name => i = j
          /\ reader.pc = "done"
                 => reader.config \in
                       {get_config(reader.file, reader.rows, reader.formula_rows,
                                   reader.ticker_rows, f).config : f \in {"none", "formulas"}})

\* a read that took the formulas after a write that followed its SELECT on
\* the config table: the rows it returns were never in the store together
C24_Witness ==
    /\ reader.pc = "done"
    /\ reader.rows = << >> /\ config_rows # << >>
    /\ reader.formula_rows # << >> /\ reader.formula_rows = formula_rows

=============================================================================
